---------------------------- MODULE Spec2Model ----------------------------
(***************************************************************************)
(* A model of arviz/data/io_cmdstan.py: the CmdStan CSV reader, the column *)
(* to tensor reconstruction, the Rdump reader and the converter.           *)
(*                                                                         *)
(* Text is modelled as a sequence of one-character strings, so that        *)
(* str.split, str.strip, str.replace, int() and float() are computed as    *)
(* Python computes them.                                                   *)
(***************************************************************************)
EXTENDS Integers, Sequences, FiniteSets, TLC

VARIABLES
    dfs,        \* _unpack_dataframes: the list of per-chain tables passed in
    sample,     \* _unpack_dataframes: what the call gave (NotCalled before)
    rdump,      \* _read_data: the Rdump file read (its lines)
    data,       \* _read_data: what the call gave (NotCalled before)
    csv,        \* _read_output: the CSV file read (its lines)
    chains,     \* _read_output: what the call gave (NotCalled before)
    self,       \* CmdStanConverter: the object's attributes
    groups      \* CmdStanConverter: what each extraction operation gave

vars == <<dfs, sample, rdump, data, csv, chains, self, groups>>

(***************************************************************************)
(* Bounds of the model.                                                    *)
(***************************************************************************)
MaxCols == 3
MaxChains == 2
MaxDraws == 2
MaxLen == 4
MaxVal == 4
MaxRank == 2
MaxSamples == 2
MaxWarmup == 2
MaxThin == 2
MaxAdapt == 1
MaxTiming == 6
MaxBlocks == 2

\* the value a variable of the model has before the call that sets it
NotCalled == [called |-> FALSE]

(***************************************************************************)
(* Text helpers.                                                           *)
(***************************************************************************)
Digits == <<"0", "1", "2", "3", "4", "5", "6", "7", "8", "9">>

DigitVal(ch) == (CHOOSE k \in 1..10 : Digits[k] = ch) - 1

IsDigit(ch) == \E k \in 1..10 : Digits[k] = ch

IsSpace(ch) == ch = " "

\* the text s from position a to position b (empty when a > b)
Slice(s, a, b) == IF a > b THEN <<>> ELSE SubSeq(s, a, b)

HasPrefixAt(s, p, k) ==
    /\ k + Len(p) - 1 <= Len(s)
    /\ \A j \in 1..Len(p) : s[k + j - 1] = p[j]

\* str.startswith
StartsWith(s, p) == HasPrefixAt(s, p, 1)

\* str.endswith
EndsWith(s, p) == Len(p) <= Len(s) /\ HasPrefixAt(s, p, Len(s) - Len(p) + 1)

\* the substring test: p in s
Contains(s, p) == \E k \in 1..(Len(s) + 1) : HasPrefixAt(s, p, k)

\* str.strip(chars): drops from both ends every character that is in chars
StripChars(s, chars) ==
    LET keep == {k \in 1..Len(s) : s[k] \notin chars}
    IN IF keep = {} THEN <<>>
       ELSE LET a == CHOOSE k \in keep : \A m \in keep : k <= m
                b == CHOOSE k \in keep : \A m \in keep : k >= m
            IN SubSeq(s, a, b)

\* str.strip()
Strip(s) == StripChars(s, {" "})

\* str.split(sep): the pieces between the occurrences of the text sep
RECURSIVE SplitFrom(_, _, _, _)
SplitFrom(s, sep, k, cur) ==
    IF k > Len(s) THEN <<cur>>
    ELSE IF HasPrefixAt(s, sep, k)
         THEN <<cur>> \o SplitFrom(s, sep, k + Len(sep), <<>>)
         ELSE SplitFrom(s, sep, k + 1, Append(cur, s[k]))

Split(s, sep) == SplitFrom(s, sep, 1, <<>>)

\* str.split(): the runs of non-blank characters
RECURSIVE WordsFrom(_, _, _)
WordsFrom(s, k, cur) ==
    IF k > Len(s) THEN (IF cur = <<>> THEN <<>> ELSE <<cur>>)
    ELSE IF IsSpace(s[k])
         THEN (IF cur = <<>> THEN <<>> ELSE <<cur>>) \o WordsFrom(s, k + 1, <<>>)
         ELSE WordsFrom(s, k + 1, Append(cur, s[k]))

Words(s) == WordsFrom(s, 1, <<>>)

\* str.replace(old, new): every non-overlapping occurrence, left to right
RECURSIVE ReplaceFrom(_, _, _, _)
ReplaceFrom(s, old, new, k) ==
    IF k > Len(s) THEN <<>>
    ELSE IF HasPrefixAt(s, old, k)
         THEN new \o ReplaceFrom(s, old, new, k + Len(old))
         ELSE <<s[k]>> \o ReplaceFrom(s, old, new, k + 1)

Replace(s, old, new) == ReplaceFrom(s, old, new, 1)

RECURSIVE DigitsVal(_, _)
DigitsVal(s, k) ==
    IF k = 0 THEN 0 ELSE 10 * DigitsVal(s, k - 1) + DigitVal(s[k])

\* int(text): blanks around the digits are dropped; anything but digits is a
\* ValueError ([ok |-> FALSE])
ParseInt(s) ==
    LET t == Strip(s)
    IN IF t # <<>> /\ \A k \in 1..Len(t) : IsDigit(t[k])
       THEN [ok |-> TRUE, v |-> DigitsVal(t, Len(t))]
       ELSE [ok |-> FALSE, v |-> 0]

RECURSIVE Flatten(_)
Flatten(ss) == IF ss = <<>> THEN <<>> ELSE Head(ss) \o Flatten(Tail(ss))

Max(S) == CHOOSE m \in S : \A n \in S : n <= m

Range(f) == {f[k] : k \in DOMAIN f}


(***************************************************************************)
(* Tables (pandas.DataFrame) and arrays (numpy.ndarray).                   *)
(*                                                                         *)
(* A table is [columns, nrows, values]: the column names in order, the     *)
(* number of rows, and per column (same order) its values.  An array is    *)
(* [shape, cells]: cells maps every 0-based index tuple within shape to a  *)
(* value.                                                                  *)
(***************************************************************************)
\* numpy.nan, the fill value of numpy.full
NaN == -1

HasColumn(df, col) == \E k \in 1..Len(df.columns) : df.columns[k] = col

\* df[col].values
ColumnValues(df, col) ==
    df.values[CHOOSE k \in 1..Len(df.columns) : df.columns[k] = col]

\* df[cols]: the table restricted to the columns cols, in that order
SelectColumns(df, cols) ==
    [columns |-> cols,
     nrows   |-> df.nrows,
     values  |-> [k \in 1..Len(cols) |-> ColumnValues(df, cols[k])]]

\* every index tuple of an array of the given shape
IndexSet(shape) ==
    {idx \in [1..Len(shape) -> 0..Max(Range(shape) \cup {0})] :
        \A a \in 1..Len(shape) : idx[a] < shape[a]}

(***************************************************************************)
(* _unpack_dataframes                                                      *)
(***************************************************************************)
\* SplitColumn with the indices left 1-based
SplitColumnOneBased(col) ==
    LET parts == Split(col, <<".">>)
        ints  == [k \in 1..(Len(parts) - 1) |-> ParseInt(parts[k + 1])]
    IN [key |-> parts[1],
        ok  |-> \A k \in 1..Len(ints) : ints[k].ok,
        loc |-> [k \in 1..Len(ints) |-> ints[k].v]]

\* key, *loc = col.split('.'); loc = tuple(int(i) - 1 for i in loc)
SplitColumn(col) ==
    LET parts == Split(col, <<".">>)
        ints  == [k \in 1..(Len(parts) - 1) |-> ParseInt(parts[k + 1])]
    IN [key |-> parts[1],
        ok  |-> \A k \in 1..Len(ints) : ints[k].ok,
        loc |-> [k \in 1..Len(ints) |-> ints[k].v - 1]]

\* col_groups[key]: the (col, loc) pairs of the columns of one key, in
\* column order
RECURSIVE ColsLocs(_, _)
ColsLocs(columns, key) ==
    IF columns = <<>> THEN <<>>
    ELSE LET sc == SplitColumn(Head(columns))
         IN (IF sc.key = key THEN <<[col |-> Head(columns), loc |-> sc.loc]>>
             ELSE <<>>) \o ColsLocs(Tail(columns), key)

\* np.array([loc for _, loc in cols_locs]).max(0) + 1 needs locs of one length
Ragged(cols_locs) ==
    \E a, b \in 1..Len(cols_locs) : Len(cols_locs[a].loc) # Len(cols_locs[b].loc)

NDim(cols_locs) ==
    [a \in 1..Len(cols_locs[1].loc) |->
        Max({cols_locs[k].loc[a] : k \in 1..Len(cols_locs)}) + 1]

\* numpy's index normalisation: a negative index counts from the end
WrapIndex(i, dim) == IF i < 0 THEN i + dim ELSE i

WrapLoc(loc, ndim) == [a \in 1..Len(loc) |-> WrapIndex(loc[a], ndim[a])]

LocInBounds(loc, ndim) ==
    \A a \in 1..Len(loc) :
        WrapIndex(loc[a], ndim[a]) >= 0 /\ WrapIndex(loc[a], ndim[a]) < ndim[a]

\* numpy's broadcast of a value of length m into a target of length n
Broadcasts(m, n) == m = n \/ m = 1

\* sample[key][chain_id, :] = draw and sample[key][slicer] = draw: the cells
\* of chain chain_id at loc, one per draw, are set from the column's values
AssignDraw(arr, chain_id, loc, draw) ==
    LET at == WrapLoc(loc, SubSeq(arr.shape, 3, Len(arr.shape)))
    IN [arr EXCEPT !.cells =
          [idx \in DOMAIN arr.cells |->
              IF idx[1] = chain_id /\ SubSeq(idx, 3, Len(idx)) = at
              THEN (IF Len(draw) = 1 THEN draw[1] ELSE draw[idx[2] + 1])
              ELSE arr.cells[idx]]]

\* for chain_id, df in enumerate(dfs): the chains from chain_id on
RECURSIVE WriteChains(_, _, _, _)
WriteChains(arr, tables, cl, chain_id) ==
    IF chain_id >= Len(tables) THEN arr
    ELSE WriteChains(
            AssignDraw(arr, chain_id, cl.loc,
                       ColumnValues(tables[chain_id + 1], cl.col)),
            tables, cl, chain_id + 1)

\* for col, loc in cols_locs: the columns from position k on
RECURSIVE WriteColumns(_, _, _, _)
WriteColumns(arr, tables, cols_locs, k) ==
    IF k > Len(cols_locs) THEN arr
    ELSE WriteColumns(WriteChains(arr, tables, cols_locs[k], 0),
                      tables, cols_locs, k + 1)

\* np.full((chains, draws, *ndim), np.nan)
Full(shape) == [shape |-> shape, cells |-> [idx \in IndexSet(shape) |-> NaN]]

\* the exception the call ends with, "none" when it returns
UnpackError(tables) ==
    IF tables = <<>> THEN "IndexError"
    ELSE LET columns == tables[1].columns
             draws   == tables[1].nrows
             keys    == {SplitColumn(columns[k]).key : k \in 1..Len(columns)}
         IN IF \E k \in 1..Len(columns) : ~SplitColumn(columns[k]).ok
               THEN "ValueError"
            ELSE IF \E key \in keys : Ragged(ColsLocs(columns, key))
               THEN "ValueError"
            ELSE IF \E c \in 1..Len(tables), k \in 1..Len(columns) :
                       ~HasColumn(tables[c], columns[k])
               THEN "KeyError"
            ELSE IF /\ draws > 0
                    /\ \E key \in keys :
                         LET cls == ColsLocs(columns, key)
                         IN \E k \in 1..Len(cls) :
                               ~LocInBounds(cls[k].loc, NDim(cls))
               THEN "IndexError"
            ELSE IF \E c \in 1..Len(tables) :
                       /\ columns # <<>>
                       /\ ~Broadcasts(tables[c].nrows, draws)
               THEN "ValueError"
            ELSE "none"

\* the dictionary sample the call returns, once it is known to raise err
UnpackResult(tables, err) ==
    IF err # "none" THEN [called |-> TRUE, err |-> err, val |-> <<>>]
    ELSE LET columns == tables[1].columns
             keys    == {SplitColumn(columns[k]).key : k \in 1..Len(columns)}
         IN [called |-> TRUE,
             err    |-> "none",
             val    |-> [key \in keys |->
                 LET cls == ColsLocs(columns, key)
                 IN WriteColumns(
                       Full(<<Len(tables), tables[1].nrows>> \o NDim(cls)),
                       tables, cls, 1)]]

unpack_dataframes(tables) == UnpackResult(tables, UnpackError(tables))

(***************************************************************************)
(* The tables the reconstruction is run on.  Every cell of every table     *)
(* holds a value of its own, so that a value written to the wrong place    *)
(* shows.                                                                  *)
(***************************************************************************)
ColMenu ==
    << <<"x">>,
       <<"x", ".", "1">>,
       <<"y", ".", "1">>,
       <<"y", ".", "2">>,
       <<"y", ".", "0", "1">>,
       <<"z", ".", "1", ".", "1">>,
       <<"z", ".", "1", ".", "2">>,
       <<"z", ".", "2", ".", "1">> >>

ColId(col) == CHOOSE k \in 1..Len(ColMenu) : ColMenu[k] = col

\* the value at row d (from 1) of column col in the table of chain c (from 1)
CellValue(c, col, d) == 100 * c + 10 * ColId(col) + d

MkTable(c, cols, n) ==
    [columns |-> cols,
     nrows   |-> n,
     values  |-> [k \in 1..Len(cols) |-> [d \in 1..n |-> CellValue(c, cols[k], d)]]]

\* the column lists: up to MaxCols distinct names of the menu, in any order
ColSeqs ==
    {cs \in UNION {[1..k -> Range(ColMenu)] : k \in 0..MaxCols} :
        \A a, b \in 1..Len(cs) : a # b => cs[a] # cs[b]}

Reverse(s) == [k \in 1..Len(s) |-> s[Len(s) + 1 - k]]

\* how the tables of the chains after the first differ from the first
Variants == {"same", "reordered", "lacks", "extra", "fewer"}

LaterColumns(cols, variant) ==
    CASE variant = "reordered" -> Reverse(cols)
      [] variant = "lacks"     -> Slice(cols, 1, Len(cols) - 1)
      [] variant = "extra"     ->
            IF \E m \in Range(ColMenu) : m \notin Range(cols)
            THEN Append(cols, CHOOSE m \in Range(ColMenu) : m \notin Range(cols))
            ELSE cols
      [] OTHER                 -> cols

LaterRows(n, variant) == IF variant = "fewer" /\ n > 0 THEN n - 1 ELSE n

MkTables(cols, nchains, n, variant) ==
    [c \in 1..nchains |->
        IF c = 1 THEN MkTable(c, cols, n)
        ELSE MkTable(c, LaterColumns(cols, variant), LaterRows(n, variant))]

InitUnpack ==
    /\ \E cols \in ColSeqs, nchains \in 0..MaxChains, n \in 0..MaxDraws,
          variant \in Variants :
          /\ nchains < 2 => variant = "same"
          /\ dfs = MkTables(cols, nchains, n, variant)
    /\ sample = NotCalled
    /\ rdump = <<>>
    /\ data = NotCalled
    /\ csv = <<>>
    /\ chains = NotCalled
    /\ self = NotCalled
    /\ groups = NotCalled

\* a call of _unpack_dataframes(dfs)
Unpack ==
    /\ ~sample.called
    /\ sample' = unpack_dataframes(dfs)
    /\ UNCHANGED <<dfs, rdump, data, csv, chains, self, groups>>

NextUnpack == Unpack

SpecUnpack == InitUnpack /\ [][NextUnpack]_vars

(***************************************************************************)
(* What the claims about the reconstruction speak of, read off the column  *)
(* names themselves.                                                       *)
(***************************************************************************)
\* the text before the first '.'
BaseName(col) ==
    LET dots == {k \in 1..Len(col) : col[k] = "."}
    IN IF dots = {} THEN col
       ELSE Slice(col, 1, (CHOOSE k \in dots : \A m \in dots : k <= m) - 1)

\* the 1-based indices written after the base name
DottedIndex(col) ==
    LET parts == Split(col, <<".">>)
    IN [k \in 1..(Len(parts) - 1) |-> ParseInt(parts[k + 1]).v]

DottedIndexOk(col) ==
    LET parts == Split(col, <<".">>)
    IN \A k \in 2..Len(parts) : ParseInt(parts[k]).ok /\ ParseInt(parts[k]).v >= 1

ColumnsOf(tables, name) ==
    {col \in Range(tables[1].columns) : BaseName(col) = name}

BaseNames(tables) == {BaseName(col) : col \in Range(tables[1].columns)}

\* the per-axis maximum of the 1-based indices of the columns of one name
DimsOf(tables, name) ==
    LET cols == ColumnsOf(tables, name)
        rank == Len(DottedIndex(CHOOSE col \in cols : TRUE))
    IN [a \in 1..rank |-> Max({DottedIndex(col)[a] : col \in cols})]

\* the columns of every base name cover each multi-index exactly once, and
\* all tables have the same column set and the same number of rows
WellFormedTables(tables) ==
    /\ tables # <<>>
    /\ \A c \in 1..Len(tables) :
          /\ Range(tables[c].columns) = Range(tables[1].columns)
          /\ Len(tables[c].columns) = Len(tables[1].columns)
          /\ tables[c].nrows = tables[1].nrows
    /\ \A col \in Range(tables[1].columns) : DottedIndexOk(col)
    /\ \A name \in BaseNames(tables) :
          LET cols == ColumnsOf(tables, name)
          IN /\ \A a, b \in cols : Len(DottedIndex(a)) = Len(DottedIndex(b))
             /\ \A a, b \in cols : DottedIndex(a) = DottedIndex(b) => a = b
             /\ LET dims == DimsOf(tables, name)
                IN \A at \in [1..Len(dims) -> 1..Max(Range(dims) \cup {1})] :
                      (\A a \in 1..Len(dims) : at[a] <= dims[a])
                          => \E col \in cols : DottedIndex(col) = at

\* C1: for well-formed tables the call returns, for each base name, an array
\* of shape (chains, draws, *dims) with dims the per-axis maximum of the
\* 1-based indices; the cell [c, d, i1-1, ..., ik-1] is the value at draw d
\* of column name.i1...ik in chain c, and no cell is left at NaN.
C1_UnpackWellFormed ==
    (sample.called /\ WellFormedTables(dfs)) =>
        /\ sample.err = "none"
        /\ DOMAIN sample.val = BaseNames(dfs)
        /\ \A name \in BaseNames(dfs) :
              LET arr == sample.val[name]
              IN /\ arr.shape = <<Len(dfs), dfs[1].nrows>> \o DimsOf(dfs, name)
                 /\ \A col \in ColumnsOf(dfs, name) :
                       \A c \in 1..Len(dfs), d \in 1..dfs[1].nrows :
                          arr.cells[<<c - 1, d - 1>> \o
                                    [a \in 1..Len(DottedIndex(col)) |->
                                        DottedIndex(col)[a] - 1]]
                              = ColumnValues(dfs[c], col)[d]
                 /\ \A idx \in DOMAIN arr.cells : arr.cells[idx] # NaN

\* C1's case: two chains of two draws, a scalar column and a variable of two
\* columns with a two-axis index, the second table in another column order
C1_Witness ==
    /\ sample.called
    /\ WellFormedTables(dfs)
    /\ Len(dfs) = 2
    /\ dfs[1].nrows = 2
    /\ dfs[2].columns # dfs[1].columns
    /\ \E name \in BaseNames(dfs) : DimsOf(dfs, name) = <<>>
    /\ \E name \in BaseNames(dfs) : DimsOf(dfs, name) = <<1, 2>>

\* two distinct columns of one base name with the same normalized index
OverlappingColumns(tables) ==
    /\ tables # <<>>
    /\ \E a, b \in Range(tables[1].columns) :
          /\ a # b
          /\ BaseName(a) = BaseName(b)
          /\ DottedIndexOk(a) /\ DottedIndexOk(b)
          /\ DottedIndex(a) = DottedIndex(b)

\* C10: when two distinct columns of one base name have the same normalized
\* multi-index, the call fails with an error instead of letting the later
\* column overwrite the earlier one (stated for tables that have rows, where
\* the overwritten cells exist).
C10_OverlapIsFatal ==
    (sample.called /\ OverlappingColumns(dfs) /\ dfs[1].nrows > 0)
        => sample.err # "none"

\* the base names of the columns of one table
TableBaseNames(df) == {BaseName(col) : col \in Range(df.columns)}

\* some table has another draw count, or another set of base names, than
\* the first
MismatchedTables(tables) ==
    /\ tables # <<>>
    /\ \E c \in 1..Len(tables) :
          \/ tables[c].nrows # tables[1].nrows
          \/ TableBaseNames(tables[c]) # TableBaseNames(tables[1])

\* C11: when the tables do not all have the same draw count, or do not all
\* have the same set of column base names, the call ends with an error and
\* returns no arrays.
C11_MismatchIsFatal ==
    (sample.called /\ MismatchedTables(dfs)) =>
        (sample.err # "none" /\ sample.val = <<>>)

\* a later table that lacks a column of the first ends the call with an error
LackingColumnIsFatal ==
    (sample.called /\ dfs # <<>>
        /\ \E c \in 1..Len(dfs) : ~(Range(dfs[1].columns) \subseteq Range(dfs[c].columns)))
        => (sample.err # "none" /\ sample.val = <<>>)

\* so does a later table of another draw count, unless it has exactly one
\* row or the first table has no column
OtherDrawCountIsFatalUnlessOne ==
    (sample.called /\ dfs # <<>> /\ dfs[1].columns # <<>>
        /\ \E c \in 1..Len(dfs) : dfs[c].nrows # dfs[1].nrows /\ dfs[c].nrows # 1)
        => (sample.err # "none" /\ sample.val = <<>>)

(***************************************************************************)
(* _process_data_var and _read_data                                        *)
(***************************************************************************)
\* the texts the parser looks for
StructureOpenText == <<"s", "t", "r", "u", "c", "t", "u", "r", "e", "(">>
StructureText == <<"s", "t", "r", "u", "c", "t", "u", "r", "e">>
ArrowText == <<"<", "-">>
DotDimText == <<".", "D", "i", "m">>
VectorOpenText == <<"c", "(">>
FooText == <<"f", "o", "o">>
SecondStatementText == <<"N", " ">> \o ArrowText \o <<" ", "2">>

\* float(text) for the literals of the model, which are written with digits
\* only: the number the digits spell; blanks around it are dropped
ParseFloat(s) == ParseInt(s)

Product(dim) ==
    LET RECURSIVE Prod(_)
        Prod(k) == IF k = 0 THEN 1 ELSE dim[k] * Prod(k - 1)
    IN Prod(Len(dim))

\* the position in the flat sequence (from 0) of the index idx when the
\* first axis varies fastest
FortranOffset(idx, dim) ==
    LET RECURSIVE Off(_)
        Off(a) == IF a > Len(dim) THEN 0 ELSE idx[a] + dim[a] * Off(a + 1)
    IN Off(1)

\* np.fromiter(values).reshape(dim, order='F')
ReshapeF(flat, dim) ==
    [shape |-> dim,
     cells |-> [idx \in IndexSet(dim) |-> flat[1 + FortranOffset(idx, dim)]]]

\* a 1-D array
Array1(flat) == ReshapeF(flat, <<Len(flat)>>)

\* a Python float
Scalar(v) == [shape |-> <<>>, cells |-> [idx \in {<<>>} |-> v]]

DataError == [err |-> "ValueError", key |-> <<>>, val |-> <<>>]

\* var.replace("structure(", "").replace(",", "")
WithoutCommas(var) ==
    Replace(Replace(var, StructureOpenText, <<>>), <<",">>, <<>>)

process_data_var(string) ==
    LET kv == Split(string, ArrowText)
    IN IF Len(kv) # 2 THEN DataError
       ELSE LET key == kv[1]
                var == kv[2]
            IN IF Contains(var, StructureText)
               THEN LET vd == Split(WithoutCommas(var), DotDimText)
                    IN IF Len(vd) # 2 THEN DataError
                       ELSE LET v == Words(Strip(Replace(Replace(vd[1], VectorOpenText, <<>>),
                                                         <<")">>, <<>>)))
                                d == Words(Strip(Replace(Replace(Replace(vd[2],
                                         <<"=">>, <<>>), VectorOpenText, <<>>), <<")">>, <<>>)))
                                dim  == [k \in 1..Len(d) |-> ParseInt(d[k])]
                                flat == [k \in 1..Len(v) |-> ParseFloat(v[k])]
                                dimv == [k \in 1..Len(d) |-> dim[k].v]
                            IN IF \/ \E k \in 1..Len(d) : ~dim[k].ok
                                  \/ \E k \in 1..Len(v) : ~flat[k].ok
                                  \/ Product(dimv) # Len(v)
                               THEN DataError
                               ELSE [err |-> "none",
                                     key |-> Strip(key),
                                     val |-> ReshapeF([k \in 1..Len(v) |-> flat[k].v],
                                                      dimv)]
               ELSE IF Contains(var, VectorOpenText)
               THEN LET v == Split(Replace(Replace(var, VectorOpenText, <<>>), <<")">>, <<>>),
                                   <<",">>)
                        flat == [k \in 1..Len(v) |-> ParseFloat(v[k])]
                    IN IF \E k \in 1..Len(v) : ~flat[k].ok THEN DataError
                       ELSE [err |-> "none",
                             key |-> Strip(key),
                             val |-> Array1([k \in 1..Len(v) |-> flat[k].v])]
               ELSE LET f == ParseFloat(var)
                    IN IF ~f.ok THEN DataError
                       ELSE [err |-> "none", key |-> Strip(key), val |-> Scalar(f.v)]

\* data[key] = var
SetItem(d, key, val) ==
    [k \in DOMAIN d \cup {key} |-> IF k = key THEN val ELSE d[k]]

\* the statement gathered when the file ends: kv is what _process_data_var
\* gave for it
LastStatement(d, kv) ==
    IF kv.err # "none" THEN [called |-> TRUE, err |-> kv.err, val |-> <<>>]
    ELSE [called |-> TRUE, err |-> "none", val |-> SetItem(d, kv.key, kv.val)]

\* the loop of _read_data from line k on, var being the statement gathered
\* so far and d the dictionary filled so far
RECURSIVE ReadDataFrom(_, _, _, _)
\* line k starts a statement: the one gathered before it is stored first
NextStatement(lines, k, d, kv) ==
    IF kv.err # "none" THEN [called |-> TRUE, err |-> kv.err, val |-> <<>>]
    ELSE ReadDataFrom(lines, k + 1, <<" ">> \o Strip(lines[k]),
                      SetItem(d, kv.key, kv.val))

ReadDataFrom(lines, k, var, d) ==
    IF k > Len(lines)
    THEN IF Len(var) > 0
         THEN LastStatement(d, process_data_var(var))
         ELSE [called |-> TRUE, err |-> "none", val |-> d]
    ELSE IF Contains(lines[k], ArrowText) /\ Len(var) > 0
         THEN NextStatement(lines, k, d, process_data_var(var))
         ELSE ReadDataFrom(lines, k + 1,
                           (IF Contains(lines[k], ArrowText) THEN <<>> ELSE var)
                               \o <<" ">> \o Strip(lines[k]),
                           d)

read_data(lines) == ReadDataFrom(lines, 1, <<>>, <<>>)

(***************************************************************************)
(* The Rdump files the reader is run on: one statement foo <- ..., written *)
(* with or without a blank after each comma and around the '=' of .Dim, on *)
(* one line or wrapped before .Dim, alone or followed by a second          *)
(* statement.                                                              *)
(***************************************************************************)
Digit(n) == Digits[n + 1]

RECURSIVE Join(_, _)
Join(items, sep) ==
    IF items = <<>> THEN <<>>
    ELSE IF Len(items) = 1 THEN items[1]
    ELSE items[1] \o sep \o Join(Tail(items), sep)

\* c(n1,n2,...) or c(n1, n2, ...)
RenderVector(nums, spaced) ==
    VectorOpenText \o Join([k \in 1..Len(nums) |-> <<Digit(nums[k])>>],
                   IF spaced THEN <<",", " ">> ELSE <<",">>) \o <<")">>

RenderStatement(st) ==
    LET head == FooText \o <<" ">> \o ArrowText \o <<" ">>
        dimeq == DotDimText \o (IF st.eqspaced THEN <<" ", "=", " ">> ELSE <<"=">>)
    IN CASE st.kind = "scalar" -> <<head \o <<Digit(st.vals[1])>>>>
         [] st.kind = "vector" -> <<head \o RenderVector(st.vals, st.spaced)>>
         [] OTHER ->
              LET first  == head \o StructureOpenText \o RenderVector(st.vals, st.spaced)
                                \o <<",">>
                  second == dimeq \o RenderVector(st.dims, st.spaced) \o <<")">>
              IN IF st.wrapped THEN <<first, <<" ", " ">> \o second>>
                 ELSE <<first \o <<" ">> \o second>>

SecondStatement == <<SecondStatementText>>

DimsFor(n) ==
    {d \in UNION {[1..r -> 1..n] : r \in 1..MaxRank} : Product(d) = n}

Statements ==
    {[kind |-> "structure", vals |-> vals, dims |-> dims, spaced |-> sp,
      eqspaced |-> eq, wrapped |-> wr] :
        vals \in {v \in UNION {[1..n -> 1..MaxVal] : n \in 1..MaxLen} :
                     \A a, b \in 1..Len(v) : a < b => v[a] < v[b]},
        dims \in UNION {DimsFor(n) : n \in 1..MaxLen},
        sp \in BOOLEAN, eq \in BOOLEAN, wr \in BOOLEAN}

InitData ==
    /\ \E st \in Statements, kind \in {"structure", "vector", "scalar"},
          second \in BOOLEAN :
          /\ Product(st.dims) = Len(st.vals)
          /\ kind # "structure" => (~st.eqspaced /\ ~st.wrapped /\ Len(st.dims) = 1)
          /\ kind = "scalar" => (Len(st.vals) = 1 /\ ~st.spaced)
          /\ rdump = [stmt  |-> [st EXCEPT !.kind = kind],
                      lines |-> RenderStatement([st EXCEPT !.kind = kind])
                                   \o (IF second THEN SecondStatement ELSE <<>>)]
    /\ data = NotCalled
    /\ dfs = <<>>
    /\ sample = NotCalled
    /\ csv = <<>>
    /\ chains = NotCalled
    /\ self = NotCalled
    /\ groups = NotCalled

\* a call of _read_data(path) on the file rdump
ReadData ==
    /\ ~data.called
    /\ data' = read_data(rdump.lines)
    /\ UNCHANGED <<dfs, sample, rdump, csv, chains, self, groups>>

NextData == ReadData

SpecData == InitData /\ [][NextData]_vars

\* the array of shape dims whose entries are vals filled in column-major
\* order: the k-th value (from 0) sits where coordinate a is
\* (k \div (d1 * ... * d(a-1))) % da
ColumnMajor(vals, dims) ==
    [shape |-> dims,
     cells |-> [idx \in IndexSet(dims) |->
        vals[1 + CHOOSE k \in 0..(Len(vals) - 1) :
                \A a \in 1..Len(dims) :
                    (k \div Product(SubSeq(dims, 1, a - 1))) % dims[a] = idx[a]]]]

\* C4: every statement name <- structure(c(v1,...,vn), .Dim = c(d1,...,dk))
\* with d1*...*dk = n, with or without blanks after the commas, is read as
\* the array of shape (d1,...,dk) holding v1..vn in column-major order.
C4_StructureColumnMajor ==
    (data.called /\ rdump.stmt.kind = "structure") =>
        /\ data.err = "none"
        /\ FooText \in DOMAIN data.val
        /\ data.val[FooText] = ColumnMajor(rdump.stmt.vals, rdump.stmt.dims)

\* the same for the statements written with a blank after each comma
StructureSpacedColumnMajor ==
    (data.called /\ rdump.stmt.kind = "structure" /\ rdump.stmt.spaced) =>
        /\ data.err = "none"
        /\ FooText \in DOMAIN data.val
        /\ data.val[FooText] = ColumnMajor(rdump.stmt.vals, rdump.stmt.dims)

\* bar <- c(1,2,3) is read as the 1-D array [1,2,3], baz <- 5 as 5.0
VectorAndScalarRead ==
    (data.called /\ rdump.stmt.kind # "structure") =>
        /\ data.err = "none"
        /\ FooText \in DOMAIN data.val
        /\ data.val[FooText] = (IF rdump.stmt.kind = "scalar"
                            THEN Scalar(rdump.stmt.vals[1])
                            ELSE ColumnMajor(rdump.stmt.vals, rdump.stmt.dims))

(***************************************************************************)
(* _process_configuration                                                  *)
(***************************************************************************)
\* Python's None, and a local variable no assignment has bound yet
None == -1
Unbound == -2

NumSamplesText == <<"n", "u", "m", "_", "s", "a", "m", "p", "l", "e", "s">>
NumWarmupText == <<"n", "u", "m", "_", "w", "a", "r", "m", "u", "p">>
SaveWarmupText == <<"s", "a", "v", "e", "_", "w", "a", "r", "m", "u", "p">>
ThinText == <<"t", "h", "i", "n">>
DefaultText == <<"(", "D", "e", "f", "a", "u", "l", "t", ")">>

\* int(comment.strip("<name> = ").strip("(Default)")): strip takes the
\* characters of its argument as a set
SettingValue(comment, name) ==
    ParseInt(StripChars(StripChars(comment, Range(name \o <<" ", "=", " ">>)),
                        Range(DefaultText)))

\* one step of the loop: the comment's setting is written over conf; a value
\* int() cannot read is a ValueError
ConfigurationStep(conf, line) ==
    LET comment == Strip(StripChars(line, {"#"}))
    IN IF StartsWith(comment, NumSamplesText)
       THEN (IF SettingValue(comment, NumSamplesText).ok
             THEN [conf EXCEPT !.num_samples = SettingValue(comment, NumSamplesText).v]
             ELSE [conf EXCEPT !.err = "ValueError"])
       ELSE IF StartsWith(comment, NumWarmupText)
       THEN (IF SettingValue(comment, NumWarmupText).ok
             THEN [conf EXCEPT !.num_warmup = SettingValue(comment, NumWarmupText).v]
             ELSE [conf EXCEPT !.err = "ValueError"])
       ELSE IF StartsWith(comment, SaveWarmupText)
       THEN (IF SettingValue(comment, SaveWarmupText).ok
             THEN [conf EXCEPT !.save_warmup =
                      IF SettingValue(comment, SaveWarmupText).v # 0
                      THEN "True" ELSE "False"]
             ELSE [conf EXCEPT !.err = "ValueError"])
       ELSE IF StartsWith(comment, ThinText)
       THEN (IF SettingValue(comment, ThinText).ok
             THEN [conf EXCEPT !.thin = SettingValue(comment, ThinText).v]
             ELSE [conf EXCEPT !.err = "ValueError"])
       ELSE conf

\* for comment in comments, from position k on
RECURSIVE ConfigurationLoop(_, _, _)
ConfigurationLoop(comments, k, conf) ==
    IF k > Len(comments) \/ conf.err # "none" THEN conf
    ELSE ConfigurationLoop(comments, k + 1, ConfigurationStep(conf, comments[k]))

\* the return statement reads the local thin: unbound, it is an
\* UnboundLocalError
ConfigurationReturn(conf) ==
    IF conf.err = "none" /\ conf.thin = Unbound
    THEN [conf EXCEPT !.err = "UnboundLocalError"]
    ELSE conf

\* _process_configuration with thin starting at 1 instead of unbound
process_configuration_default_thin(comments) ==
    ConfigurationReturn(ConfigurationLoop(comments, 1,
        [err |-> "none", num_samples |-> None, num_warmup |-> None,
         save_warmup |-> "None", thin |-> 1]))

process_configuration(comments) ==
    ConfigurationReturn(ConfigurationLoop(comments, 1,
        [err |-> "none", num_samples |-> None, num_warmup |-> None,
         save_warmup |-> "None", thin |-> Unbound]))

(***************************************************************************)
(* _read_output                                                            *)
(*                                                                         *)
(* A file is [id, cols, lines]: cols are the column names of its header    *)
(* row and lines its lines.  A line is [tag, txt, sect, blk]: tag says     *)
(* what the reader can see of it ("comment": it starts with '#' and txt is *)
(* its text; "header": the row of column names; "row": a row of numbers;   *)
(* "blank").  sect and blk say which part of which chain block the line    *)
(* was written as; the reader never looks at them.  A row is known by its  *)
(* line number, and a list of comment lines by their line numbers.  A      *)
(* table read from a file has two more fields: dtypes, the type of every   *)
(* column ("parsed": as pandas.read_csv gave it), and lines, the line      *)
(* numbers of its rows.                                                    *)
(***************************************************************************)
\* the number of lines read after the last data row for the timing info
TimingLines == 5

BlankLine == [tag |-> "blank", txt |-> <<>>, sect |-> "none", blk |-> 0]

\* line.startswith("#")
IsComment(line) == line.tag = "comment"

\* linecache.getline(path, n): the empty text when there is no line n
GetLine(lines, n) == IF n >= 1 /\ n <= Len(lines) THEN lines[n] ELSE BlankLine

Texts(lines, nums) == [k \in 1..Len(nums) |-> lines[nums[k]].txt]

\* range(a, b) as a list
RangeList(a, b) == [k \in 1..(IF b > a THEN b - a ELSE 0) |-> a + k - 1]

\* the value of column col in the row at line n of the file id
FileCell(id, n, cols, col) ==
    1000 * id + 10 * n + (CHOOSE k \in 1..Len(cols) : cols[k] = col)

\* the table of the columns cols over the rows at the lines rows
FileTable(file, cols, rows) ==
    [columns |-> cols,
     nrows   |-> Len(rows),
     values  |-> [k \in 1..Len(cols) |->
                    [d \in 1..Len(rows) |-> FileCell(file.id, rows[d], file.cols, cols[k])]],
     dtypes  |-> [k \in 1..Len(cols) |-> "parsed"],
     lines   |-> rows]

\* the header row of the first loop: pconf is what _process_configuration
\* gave for the comments read so far; the division of the warm-up skip
\* raises when num_warmup is None or thin is 0
HeaderRowWith(st, comments, pconf) ==
    [st EXCEPT !.i = st.cnt, !.cnt = @ + 1, !.column_names = TRUE,
               !.pconf = pconf,
               !.calls = Append(@, [comments |-> comments, result |-> pconf]),
               !.err = IF pconf.err # "none" THEN pconf.err
                       ELSE IF pconf.save_warmup = "True" /\ pconf.num_warmup = None
                            THEN "TypeError"
                       ELSE IF pconf.save_warmup = "True" /\ pconf.thin = 0
                            THEN "ZeroDivisionError"
                       ELSE "none"]

HeaderRow(st, comments) == HeaderRowWith(st, comments, process_configuration(comments))

\* the lines the first loop skips after the header row
WarmupSkip(pconf) ==
    IF pconf.save_warmup = "True" THEN pconf.num_warmup \div pconf.thin ELSE 0

\* the first loop: the lines from pos on, st holding i, the enumerate
\* counter cnt, column_names, the two lists and pconf
RECURSIVE FirstPass(_, _, _)
AfterHeaderRow(lines, pos, st) ==
    IF st.err # "none" THEN st
    ELSE FirstPass(lines, pos + 1 + WarmupSkip(st.pconf), st)

FirstPass(lines, pos, st) ==
    IF pos > Len(lines) \/ st.err # "none" THEN st
    ELSE IF IsComment(lines[pos])
    THEN FirstPass(lines, pos + 1,
            IF st.column_names
            THEN [st EXCEPT !.i = st.cnt, !.cnt = @ + 1,
                            !.adaptation_info = Append(@, pos)]
            ELSE [st EXCEPT !.i = st.cnt, !.cnt = @ + 1,
                            !.configuration_info = Append(@, pos)])
    ELSE IF ~st.column_names
    THEN AfterHeaderRow(lines, pos, HeaderRow(st, Texts(lines, st.configuration_info)))
    ELSE [st EXCEPT !.i = st.cnt]

\* pd.read_csv(f_obj, comment="#"): the lines that are neither comments nor
\* blank; the first is the header, the others are the rows of the table
DataLines(lines) ==
    LET RECURSIVE From(_)
        From(k) == IF k > Len(lines) THEN <<>>
                   ELSE (IF lines[k].tag \in {"comment", "blank"} THEN <<>> ELSE <<k>>)
                            \o From(k + 1)
    IN From(1)

\* the split at the rows that repeat the header: a piece before a repeated
\* header is kept when it has rows, the piece after the last one always
RECURSIVE SplitRows(_, _, _, _)
SplitRows(lines, rows, k, cur) ==
    IF k > Len(rows) THEN <<cur>>
    ELSE IF lines[rows[k]].tag = "header"
         THEN (IF cur # <<>> THEN <<cur>> ELSE <<>>) \o SplitRows(lines, rows, k + 1, <<>>)
         ELSE SplitRows(lines, rows, k + 1, Append(cur, rows[k]))

\* df.iloc[-saved_samples:, :]
LastRowsFromMinus(rows, saved_samples) ==
    IF saved_samples = 0 \/ saved_samples >= Len(rows) THEN rows
    ELSE SubSeq(rows, Len(rows) - saved_samples + 1, Len(rows))

\* "Remove warmup" and "Split data to sample_stats and sample": the tuple
\* appended to chains for the table df, or the error raised
Segment(file, df, pconf, configuration_info, adaptation_info, timing_info) ==
    LET stripped == IF pconf.save_warmup = "True"
                    THEN LastRowsFromMinus(df, pconf.num_samples \div pconf.thin)
                    ELSE df
        sample_stats_columns == SelectSeq(file.cols, LAMBDA col : EndsWith(col, <<"_", "_">>))
        sample_columns == SelectSeq(file.cols, LAMBDA col : ~EndsWith(col, <<"_", "_">>))
    IN [sample             |-> FileTable(file, sample_columns, stripped),
        sample_stats       |-> FileTable(file, sample_stats_columns, stripped),
        configuration_info |-> configuration_info,
        adaptation_info    |-> adaptation_info,
        timing_info        |-> timing_info]

SegmentError(pconf) ==
    IF pconf.err # "none" THEN pconf.err
    ELSE IF pconf.save_warmup = "True" /\ pconf.num_samples = None THEN "TypeError"
    ELSE IF pconf.save_warmup = "True" /\ pconf.thin = 0 THEN "ZeroDivisionError"
    ELSE "none"

\* the first table: the timing info is read from the TimingLines lines
\* after the last data row, the non-empty ones kept
FirstSegment(file, df, st) ==
    LET line_num == st.i + Len(df) + 1
        timing_info == SelectSeq(RangeList(line_num, line_num + TimingLines),
                           LAMBDA n : GetLine(file.lines, n).tag # "blank")
        err == SegmentError(st.pconf)
    IN IF err # "none" THEN [st EXCEPT !.err = err]
       ELSE [st EXCEPT
               !.configuration_info_len = Len(st.configuration_info),
               !.adaptation_info_len = Len(st.adaptation_info),
               !.timing_info_len = Len(timing_info),
               !.last_line_num = Len(st.configuration_info) + Len(st.adaptation_info)
                                    + Len(timing_info) + Len(df) + 1,
               !.chains = Append(@, Segment(file, df, st.pconf, st.configuration_info,
                                            st.adaptation_info, timing_info))]

\* every line of the list is a comment: pd.read_csv(..., comment=None) of
\* anything else is a ValueError
AllComments(file, nums) ==
    \A k \in 1..Len(nums) : IsComment(GetLine(file.lines, nums[k]))

\* a later table, once its configuration comments are read: pconf is what
\* _process_configuration gave for them
LaterSegmentWith(file, df, st, configuration_info, comments, pconf) ==
    LET st1 == [st EXCEPT !.pconf = pconf,
                          !.calls = Append(@, [comments |-> comments, result |-> pconf])]
        config_end == st.last_line_num + 1 + st.configuration_info_len
        warmup_rows == ((IF pconf.save_warmup = "True" THEN 1 ELSE 0) * pconf.num_warmup)
                            \div pconf.thin
        adaption_start == config_end + 1 + warmup_rows
        adaption_end == adaption_start + st.adaptation_info_len
        adaptation_info == RangeList(adaption_start, adaption_end)
        timing_start == adaption_end + Len(df) - warmup_rows
        timing_end == timing_start + st.timing_info_len
        timing_info == RangeList(timing_start, timing_end)
        reading_line == IF timing_info # <<>> THEN timing_end - 1
                        ELSE IF adaptation_info # <<>> THEN adaption_end - 1
                        ELSE IF configuration_info # <<>> THEN config_end - 1
                        ELSE st.reading_line
    IN IF pconf.err # "none" THEN [st1 EXCEPT !.err = pconf.err]
       ELSE IF pconf.save_warmup = "None" \/ pconf.num_warmup = None
            THEN [st1 EXCEPT !.err = "TypeError"]
       ELSE IF pconf.thin = 0 THEN [st1 EXCEPT !.err = "ZeroDivisionError"]
       ELSE IF ~AllComments(file, adaptation_info) THEN [st1 EXCEPT !.err = "ValueError"]
       ELSE IF ~AllComments(file, timing_info) THEN [st1 EXCEPT !.err = "ValueError"]
       ELSE IF reading_line = Unbound THEN [st1 EXCEPT !.err = "UnboundLocalError"]
       ELSE IF SegmentError(pconf) # "none" THEN [st1 EXCEPT !.err = SegmentError(pconf)]
       ELSE [st1 EXCEPT
               !.reading_line = reading_line,
               !.last_line_num = reading_line,
               !.chains = Append(@, Segment(file, df, pconf, configuration_info,
                                            adaptation_info, timing_info))]

\* the configuration comments of a later table, at the lines configuration_info
LaterSegmentAt(file, df, st, configuration_info) ==
    IF ~AllComments(file, configuration_info) THEN [st EXCEPT !.err = "ValueError"]
    ELSE LaterSegmentWith(file, df, st, configuration_info,
                          Texts(file.lines, configuration_info),
                          process_configuration(Texts(file.lines, configuration_info)))

\* a later table: the three line ranges are computed from the lengths found
\* for the first table and read again by line number
LaterSegment(file, df, st) ==
    LaterSegmentAt(file, df, st,
                   RangeList(st.last_line_num + 1,
                             st.last_line_num + 1 + st.configuration_info_len))

\* for j, df in enumerate(dfs), from table j (from 1) on
RECURSIVE SegmentLoop(_, _, _, _)
SegmentLoop(file, tables, j, st) ==
    IF j > Len(tables) \/ st.err # "none" THEN st
    ELSE SegmentLoop(file, tables, j + 1,
                     IF j = 1 THEN FirstSegment(file, tables[j], st)
                     ELSE LaterSegment(file, tables[j], st))

\* what the call gives when the loop over the tables ends in the state last
ReadResult(last) ==
    [called |-> TRUE, err |-> last.err,
     val |-> IF last.err = "none" THEN last.chains ELSE <<>>,
     calls |-> last.calls]

\* the part after the first loop: first is the state the first loop ended
\* in, data_lines the lines pd.read_csv reads
ReadTables(file, first, data_lines) ==
    IF first.err # "none"
    THEN [called |-> TRUE, err |-> first.err, val |-> <<>>, calls |-> first.calls]
    ELSE IF data_lines = <<>>
    THEN [called |-> TRUE, err |-> "EmptyDataError", val |-> <<>>,
          calls |-> first.calls]
    ELSE ReadResult(
            SegmentLoop(file, SplitRows(file.lines, Tail(data_lines), 1, <<>>), 1,
                        [err |-> "none", i |-> first.i, pconf |-> first.pconf,
                         calls |-> first.calls,
                         configuration_info |-> first.configuration_info,
                         adaptation_info |-> first.adaptation_info,
                         configuration_info_len |-> 0, adaptation_info_len |-> 0,
                         timing_info_len |-> 0, last_line_num |-> 0,
                         reading_line |-> Unbound, chains |-> <<>>]))

\* what the call gives: the list chains (val), or the exception (err); calls
\* lists the calls of _process_configuration made, with what each gave
read_output(file) ==
    ReadTables(file,
               FirstPass(file.lines, 1,
                    [err |-> "none", i |-> 0, cnt |-> 0, column_names |-> FALSE,
                     configuration_info |-> <<>>, adaptation_info |-> <<>>,
                     pconf |-> [err |-> "UnboundLocalError"], calls |-> <<>>]),
               DataLines(file.lines))

(***************************************************************************)
(* The CSV files the reader is run on.  A file is k chain blocks of one    *)
(* layout: four configuration comments, the header row, the warm-up rows   *)
(* (when save_warmup is 1), A adaptation comments, the sampling rows and T *)
(* timing comments.  The rows written agree with the configuration:        *)
(* num_warmup \div thin warm-up rows and num_samples \div thin sampling    *)
(* rows.  The thin comment is written in every block, in the first block   *)
(* only, or in none; where it is missing another comment takes its place.  *)
(***************************************************************************)
CommentLine(text, sect, blk) ==
    [tag |-> "comment", txt |-> text, sect |-> sect, blk |-> blk]

DataLine(tag, sect, blk) == [tag |-> tag, txt |-> <<>>, sect |-> sect, blk |-> blk]

\* "#   <name> = <n>" with " (Default)" after it when dflt
SettingLine(name, n, dflt, blk) ==
    CommentLine(<<"#", " ", " ", " ">> \o name \o <<" ", "=", " ", Digit(n)>>
                    \o (IF dflt THEN <<" ">> \o DefaultText ELSE <<>>),
                "config", blk)

Repeat(line, n) == [k \in 1..n |-> line]

WarmupRows(p) == p.sw * (p.nw \div p.th)

SamplingRows(p) == p.ns \div p.th

Block(p, blk) ==
    << SettingLine(NumSamplesText, p.ns, p.dflt, blk),
       SettingLine(NumWarmupText, p.nw, p.dflt, blk),
       SettingLine(SaveWarmupText, p.sw, p.dflt, blk),
       IF p.thins = "all" \/ (p.thins = "first" /\ blk = 1)
       THEN SettingLine(ThinText, p.th, p.dflt, blk)
       ELSE SettingLine(<<"d", "e", "l", "t", "a">>, 1, p.dflt, blk),
       DataLine("header", "header", blk) >>
    \o Repeat(DataLine("row", "warmup", blk), WarmupRows(p))
    \o Repeat(CommentLine(<<"#", " ", "A", "d", "a", "p", "t", "a", "t", "i", "o", "n", " ", "t", "e", "r", "m", "i", "n", "a", "t", "e", "d">>, "adaptation", blk), p.A)
    \o Repeat(DataLine("row", "sample", blk), SamplingRows(p))
    \o Repeat(CommentLine(<<"#", " ", " ", "E", "l", "a", "p", "s", "e", "d", " ", "T", "i", "m", "e">>, "timing", blk), p.T)

MkFile(id, cols, p) ==
    [id    |-> id,
     cols  |-> cols,
     lines |-> Flatten([blk \in 1..p.k |-> Block(p, blk)])]

Layouts ==
    [ns : 0..MaxSamples, nw : 0..MaxWarmup, sw : 0..1, th : 1..MaxThin,
     thins : {"all", "first", "none"}, dflt : BOOLEAN,
     A : 0..MaxAdapt, T : 0..MaxTiming, k : 1..MaxBlocks]

HeaderColumns == <<<<"l", "p", "_", "_">>, <<"x">>>>

InitRead ==
    /\ \E p \in Layouts :
          /\ p.k = 1 => p.thins # "first"
          /\ csv = [file |-> MkFile(1, HeaderColumns, p), layout |-> p]
    /\ chains = NotCalled
    /\ dfs = <<>>
    /\ sample = NotCalled
    /\ rdump = <<>>
    /\ data = NotCalled
    /\ self = NotCalled
    /\ groups = NotCalled

\* a call of _read_output(path) on the file csv
ReadOutput ==
    /\ ~chains.called
    /\ chains' = read_output(csv.file)
    /\ UNCHANGED <<dfs, sample, rdump, data, csv, self, groups>>

NextRead == ReadOutput

SpecRead == InitRead /\ [][NextRead]_vars

(***************************************************************************)
(* What the claims about the reader speak of, read off the file as it was  *)
(* written.                                                                *)
(***************************************************************************)
\* the line numbers, in order, of the lines of one part of one block
SectLines(file, sect, blk) ==
    LET RECURSIVE From(_)
        From(n) == IF n > Len(file.lines) THEN <<>>
                   ELSE (IF file.lines[n].sect = sect /\ file.lines[n].blk = blk
                         THEN <<n>> ELSE <<>>) \o From(n + 1)
    IN From(1)

\* the rows (warm-up rows, then sampling rows) of one block
BlockRows(file, blk) == SectLines(file, "warmup", blk) \o SectLines(file, "sample", blk)

\* the sub-tables of the file in physical order: the rows between one
\* header row and the next
SubTables(file, k) ==
    LET all == [blk \in 1..k |-> BlockRows(file, blk)]
    IN SelectSeq(SubSeq(all, 1, k - 1), LAMBDA rows : rows # <<>>) \o <<all[k]>>

\* the last n of rows
Trailing(rows, n) ==
    IF n >= Len(rows) THEN rows ELSE SubSeq(rows, Len(rows) - n + 1, Len(rows))

\* C2: for a file whose configuration has save_warmup true, every returned
\* segment's sample table and stats table hold exactly the trailing
\* floor(num_samples / thin) rows of the segment's sub-table: the row count
\* is floor(num_samples / thin) and no warm-up row is kept.
C2_TrailingSamplesKept ==
    (chains.called /\ chains.err = "none" /\ csv.layout.sw = 1) =>
        LET kept == csv.layout.ns \div csv.layout.th
            subs == SubTables(csv.file, csv.layout.k)
        IN \A j \in 1..Len(chains.val) :
              /\ j <= Len(subs)
              /\ chains.val[j].sample.lines = Trailing(subs[j], kept)
              /\ chains.val[j].sample_stats.lines = Trailing(subs[j], kept)
              /\ chains.val[j].sample.nrows = kept
              /\ chains.val[j].sample_stats.nrows = kept
              /\ \A d \in 1..Len(chains.val[j].sample.lines) :
                    csv.file.lines[chains.val[j].sample.lines[d]].sect # "warmup"

\* the same when at least one row is to be kept (num_samples >= thin)
TrailingSamplesKeptWhenAny ==
    (chains.called /\ chains.err = "none" /\ csv.layout.sw = 1
        /\ csv.layout.ns >= csv.layout.th) =>
        LET kept == csv.layout.ns \div csv.layout.th
            subs == SubTables(csv.file, csv.layout.k)
        IN \A j \in 1..Len(chains.val) :
              /\ j <= Len(subs)
              /\ chains.val[j].sample.lines = Trailing(subs[j], kept)
              /\ chains.val[j].sample_stats.lines = Trailing(subs[j], kept)
              /\ chains.val[j].sample.nrows = kept
              /\ \A d \in 1..Len(chains.val[j].sample.lines) :
                    csv.file.lines[chains.val[j].sample.lines[d]].sect # "warmup"

\* the metadata line ranges recomputed for segment j are block j's own
OwnRanges(file, segment, j) ==
    /\ segment.configuration_info = SectLines(file, "config", j)
    /\ segment.adaptation_info = SectLines(file, "adaptation", j)
    /\ segment.timing_info = SectLines(file, "timing", j)

\* C3: for a stacked file of k >= 2 blocks of one layout with at most five
\* timing comments per block, the call raises nothing, returns exactly k
\* segments, and the ranges recomputed for every segment j >= 2 are the line
\* numbers of block j's own configuration, adaptation and timing comments
\* (stated for the files whose blocks have at least one sampling row).
C3_StackedRangesRecomputed ==
    (chains.called /\ csv.layout.k >= 2 /\ csv.layout.thins = "all"
        /\ csv.layout.T <= TimingLines /\ SamplingRows(csv.layout) >= 1) =>
        /\ chains.err = "none"
        /\ Len(chains.val) = csv.layout.k
        /\ \A j \in 2..Len(chains.val) : OwnRanges(csv.file, chains.val[j], j)

\* the same for the blocks that end with exactly five timing comments and
\* have at least one sampling row
StackedRangesWithFiveTimingLines ==
    (chains.called /\ csv.layout.k >= 2 /\ csv.layout.thins = "all"
        /\ csv.layout.T = TimingLines /\ SamplingRows(csv.layout) >= 1) =>
        /\ chains.err = "none"
        /\ Len(chains.val) = csv.layout.k
        /\ \A j \in 2..Len(chains.val) : OwnRanges(csv.file, chains.val[j], j)

(***************************************************************************)
(* CmdStanConverter                                                        *)
(*                                                                         *)
(* A keyword argument or an attribute of the converter is                  *)
(* [type |-> "None"], [type |-> "str", v |-> text] or                      *)
(* [type |-> "list", v |-> items].  The files are given by disk, a         *)
(* function from the paths that exist to the CSV files, and by the one     *)
(* Rdump file.  coords and dims are handed on to the dataset constructors  *)
(* untouched and are left out.                                             *)
(***************************************************************************)
NoneValue == [type |-> "None"]

Str(text) == [type |-> "str", v |-> text]

List(items) == [type |-> "list", v |-> items]

IsNone(x) == x.type = "None"

IsStr(x) == x.type = "str"

UpperCase ==
    <<"A", "B", "C", "D", "E", "F", "G", "H", "I", "J", "K", "L", "M",
      "N", "O", "P", "Q", "R", "S", "T", "U", "V", "W", "X", "Y", "Z">>

LowerCase ==
    <<"a", "b", "c", "d", "e", "f", "g", "h", "i", "j", "k", "l", "m",
      "n", "o", "p", "q", "r", "s", "t", "u", "v", "w", "x", "y", "z">>

\* the characters of the paths and names, in the order of their codes
Ascii == <<"*", ".">> \o Digits \o UpperCase \o <<"_">> \o LowerCase

CharCode(ch) == CHOOSE k \in 1..Len(Ascii) : Ascii[k] = ch

\* str.lower()
Lower(s) ==
    [k \in 1..Len(s) |->
        IF \E u \in 1..Len(UpperCase) : UpperCase[u] = s[k]
        THEN LowerCase[CHOOSE u \in 1..Len(UpperCase) : UpperCase[u] = s[k]]
        ELSE s[k]]

\* a < b for two texts
TextLess(a, b) ==
    \E k \in 1..Len(b) :
        /\ \A j \in 1..(k - 1) : j <= Len(a) /\ a[j] = b[j]
        /\ k > Len(a) \/ CharCode(a[k]) < CharCode(b[k])

\* sorted(paths)
RECURSIVE Sorted(_)
Sorted(paths) ==
    IF paths = {} THEN <<>>
    ELSE LET first == CHOOSE x \in paths : \A y \in paths \ {x} : TextLess(x, y)
         IN <<first>> \o Sorted(paths \ {first})

\* the pattern from position i on matches the text from position j on; a '*'
\* stands for any run of characters
RECURSIVE MatchFrom(_, _, _, _)
MatchFrom(pattern, i, s, j) ==
    IF i > Len(pattern) THEN j > Len(s)
    ELSE IF pattern[i] = "*"
         THEN MatchFrom(pattern, i + 1, s, j)
                 \/ (j <= Len(s) /\ MatchFrom(pattern, i, s, j + 1))
         ELSE j <= Len(s) /\ pattern[i] = s[j] /\ MatchFrom(pattern, i + 1, s, j + 1)

\* glob(pattern): the existing paths the pattern matches, in no order
Glob(disk, pattern) == {path \in DOMAIN disk : MatchFrom(pattern, 1, path, 1)}

\* for path in x: the items of a list, the characters of a str
Iterate(x) == IF IsStr(x) THEN [k \in 1..Len(x.v) |-> <<x.v[k]>>] ELSE x.v

CsvText == <<".", "c", "s", "v">>
LogLikelihoodText ==
    <<"l", "o", "g", "_", "l", "i", "k", "e", "l", "i", "h", "o", "o", "d">>
DivergentText == <<"d", "i", "v", "e", "r", "g", "e", "n", "t">>
DivergingText == <<"d", "i", "v", "e", "r", "g", "i", "n", "g">>
DivergentColumn == DivergentText \o <<"_", "_">>
LeapfrogColumn == <<"n", "_", "l", "e", "a", "p", "f", "r", "o", "g", "_", "_">>
TreedepthColumn == <<"t", "r", "e", "e", "d", "e", "p", "t", "h", "_", "_">>

\* the decorator: the wrapped method runs when the attribute is not None,
\* otherwise the call returns None
requires(obj, prop) == ~IsNone(obj[prop])

\* the dataset built from a dictionary of arrays
dict_to_dataset(arrays) == [type |-> "Dataset", data_vars |-> arrays]

\* the collection of the groups given: a group that is None is left out
InferenceData(kwargs) ==
    [type   |-> "InferenceData",
     groups |-> [name \in {n \in DOMAIN kwargs : ~IsNone(kwargs[n])} |-> kwargs[name]]]

\* what a method gives when it returns None
ReturnsNone == [err |-> "none", val |-> NoneValue]

\* open(path) and the reading of the file: a path that does not exist is a
\* FileNotFoundError, the directory '.' an IsADirectoryError
read_output_path(disk, path) ==
    IF path \in DOMAIN disk THEN read_output(disk[path])
    ELSE [called |-> TRUE,
          err    |-> IF path = <<".">> THEN "IsADirectoryError" ELSE "FileNotFoundError",
          val    |-> <<>>,
          calls  |-> <<>>]

\* chain_data with the tuples of parsed_output put in front
AppendSegmentsInFront(chain_data, parsed_output) == parsed_output \o chain_data

\* for ... in parsed_output: chain_data.append(...)
AppendSegments(chain_data, parsed_output) == chain_data \o parsed_output

\* one turn of the loop over the paths: parsed_output is what _read_output
\* gave for path
ReadPath(acc, path, parsed_output) ==
    [err        |-> parsed_output.err,
     chain_data |-> IF parsed_output.err = "none"
                    THEN AppendSegments(acc.chain_data, parsed_output.val)
                    ELSE acc.chain_data,
     reads      |-> Append(acc.reads,
                       [path  |-> path,
                        err   |-> parsed_output.err,
                        calls |-> parsed_output.calls])]

\* for path in paths, from position k on: acc holds chain_data, the error
\* raised and the calls of _read_output made
RECURSIVE ReadPaths(_, _, _, _)
ReadPaths(disk, paths, k, acc) ==
    IF k > Len(paths) \/ acc.err # "none" THEN acc
    ELSE ReadPaths(disk, paths, k + 1,
                   ReadPath(acc, paths[k], read_output_path(disk, paths[k])))

ReadAll(disk, paths) ==
    ReadPaths(disk, paths, 1, [err |-> "none", chain_data |-> <<>>, reads |-> <<>>])

\* self.posterior and self.sample_stats from the segments read
ParsedOutput(got) ==
    [err          |-> got.err,
     posterior    |-> List([c \in 1..Len(got.chain_data) |-> got.chain_data[c].sample]),
     sample_stats |-> List([c \in 1..Len(got.chain_data) |->
                              got.chain_data[c].sample_stats]),
     reads        |-> got.reads]

\* _parse_output: the attributes posterior and sample_stats it sets, the
\* error raised and the calls of _read_output made
parse_output(obj, disk) ==
    IF ~requires(obj, "output")
    THEN [err |-> "none", posterior |-> obj.posterior,
          sample_stats |-> obj.sample_stats, reads |-> <<>>]
    ELSE ParsedOutput(ReadAll(disk, Iterate(obj.output)))

\* prior and posterior_predictive in __init__: a str whose glob finds more
\* than one file becomes the sorted list of the files, otherwise it stays
GlobMany(disk, arg) ==
    IF IsStr(arg) /\ Cardinality(Glob(disk, arg.v)) > 1
    THEN List(Sorted(Glob(disk, arg.v)))
    ELSE arg

\* the attributes __init__ sets before it calls _parse_output
Attributes(kwargs, disk) ==
    [output               |-> IF IsStr(kwargs.output)
                              THEN List(Sorted(Glob(disk, kwargs.output.v)))
                              ELSE kwargs.output,
     prior                |-> GlobMany(disk, kwargs.prior),
     posterior_predictive |-> GlobMany(disk, kwargs.posterior_predictive),
     observed_data        |-> kwargs.observed_data,
     observed_data_var    |-> kwargs.observed_data_var,
     log_likelihood       |-> kwargs.log_likelihood,
     sample_stats         |-> NoneValue,
     posterior            |-> NoneValue]

\* the object once _parse_output has run: parsed is what it gave
Parsed(kwargs, obj, parsed) ==
    [called               |-> TRUE,
     kwargs               |-> kwargs,
     err                  |-> parsed.err,
     reads                |-> parsed.reads,
     output               |-> obj.output,
     prior                |-> obj.prior,
     posterior_predictive |-> obj.posterior_predictive,
     observed_data        |-> obj.observed_data,
     observed_data_var    |-> obj.observed_data_var,
     log_likelihood       |-> obj.log_likelihood,
     sample_stats         |-> parsed.sample_stats,
     posterior            |-> parsed.posterior]

\* self._parse_output(), the last statement of __init__
ParseAttributes(kwargs, obj, disk) == Parsed(kwargs, obj, parse_output(obj, disk))

\* __init__: the attributes of the object, with the arguments it was made
\* from (kwargs), the exception raised (err) and the calls of _read_output
\* made (reads)
init(kwargs, disk) == ParseAttributes(kwargs, Attributes(kwargs, disk), disk)

\* item == col.split(".")[0] with a prefix of the column accepted
IsNamedByPrefix(item, col) == StartsWith(col, item)

\* item == col.split(".")[0]
IsNamed(item, col) == item = Split(col, <<".">>)[1]

\* [col for col in columns if any(item == col.split(".")[0] for item in names)]
ColumnsNamed(columns, names) ==
    SelectSeq(columns, LAMBDA col : \E k \in 1..Len(names) : IsNamed(names[k], col))

\* [item[cols] for item in tables], a KeyError when a table lacks a column
SelectAll(tables, cols) ==
    IF \E c \in 1..Len(tables), k \in 1..Len(cols) : ~HasColumn(tables[c], cols[k])
    THEN [err |-> "KeyError", val |-> <<>>]
    ELSE [err |-> "none",
          val |-> [c \in 1..Len(tables) |-> SelectColumns(tables[c], cols)]]

\* return dict_to_dataset(data, ...): unpacked is what _unpack_dataframes gave
Unpacked(unpacked) ==
    IF unpacked.err # "none" THEN [err |-> unpacked.err, val |-> NoneValue]
    ELSE [err |-> "none", val |-> dict_to_dataset(unpacked.val)]

\* data = _unpack_dataframes(...); return dict_to_dataset(data, ...)
UnpackToDataset(selected) ==
    IF selected.err # "none" THEN [err |-> selected.err, val |-> NoneValue]
    ELSE Unpacked(unpack_dataframes(selected.val))

posterior_to_xarray(obj) ==
    IF ~requires(obj, "posterior") THEN ReturnsNone
    ELSE IF obj.posterior.v = <<>> THEN [err |-> "IndexError", val |-> NoneValue]
    ELSE LET columns == obj.posterior.v[1].columns
             pp == obj.posterior_predictive
             post_pred == IF IsNone(pp) \/ (IsStr(pp) /\ EndsWith(Lower(pp.v), CsvText))
                          THEN <<>>
                          ELSE IF IsStr(pp) THEN ColumnsNamed(columns, <<pp.v>>)
                          ELSE ColumnsNamed(columns, pp.v)
             ll == obj.log_likelihood
             log_lik == IF IsNone(ll) THEN <<>>
                        ELSE IF IsStr(ll) THEN ColumnsNamed(columns, <<ll.v>>)
                        ELSE ColumnsNamed(columns, ll.v)
             valid_cols == SelectSeq(columns,
                              LAMBDA col : col \notin Range(post_pred \o log_lik))
         IN UnpackToDataset(SelectAll(obj.posterior.v, valid_cols))

\* dtypes.get(key): None, which astype takes as float64, for the other keys
DType(key) ==
    IF key = DivergentColumn THEN "bool"
    ELSE IF key \in {LeapfrogColumn, TreedepthColumn} THEN "int64"
    ELSE "float64"

\* the value as astype(dtype) gives it
AsType(v, dtype) == IF dtype = "bool" THEN (IF v # 0 THEN 1 ELSE 0) ELSE v

\* df[col] = vals: an existing column is written over, a new one is put last
SetColumn(df, col, vals, dtype) ==
    IF HasColumn(df, col)
    THEN LET k == CHOOSE k \in 1..Len(df.columns) : df.columns[k] = col
         IN [df EXCEPT !.values[k] = vals, !.dtypes[k] = dtype]
    ELSE [df EXCEPT !.columns = Append(@, col),
                    !.values = Append(@, vals),
                    !.dtypes = Append(@, dtype)]

\* for col in log_likelihood_cols, from position k on:
\*     sampler_params[i][col.replace(log_likelihood, 'log_likelihood')] = vals[col]
RECURSIVE AddLogLikelihood(_, _, _, _, _)
AddLogLikelihood(df, item, log_likelihood, cols, k) ==
    IF k > Len(cols) THEN df
    ELSE AddLogLikelihood(
            SetColumn(df, Replace(cols[k], log_likelihood, LogLikelihoodText),
                      ColumnValues(item, cols[k]),
                      item.dtypes[CHOOSE m \in 1..Len(item.columns) :
                                      item.columns[m] = cols[k]]),
            item, log_likelihood, cols, k + 1)

\* key_, *end = key.split("."); name = re.sub('__$', "", key_); diverging
\* for divergent; ".".join((name, *end))
RenameKey(key) ==
    LET parts == Split(key, <<".">>)
        key_  == parts[1]
        name  == IF EndsWith(key_, <<"_", "_">>) THEN Slice(key_, 1, Len(key_) - 2)
                 ELSE key_
    IN Join(<<IF name = DivergentText THEN DivergingText ELSE name>> \o Tail(parts),
            <<".">>)

\* the second loop for one table: every column astype(dtypes.get(key)), then
\* the columns renamed
RetypeAndRename(df) ==
    [df EXCEPT
        !.values  = [k \in 1..Len(df.columns) |->
                        [d \in 1..Len(df.values[k]) |->
                            AsType(df.values[k][d], DType(df.columns[k]))]],
        !.dtypes  = [k \in 1..Len(df.columns) |-> DType(df.columns[k])],
        !.columns = [k \in 1..Len(df.columns) |-> RenameKey(df.columns[k])]]

\* the end of the method: renamed are the tables of self.sample_stats as the
\* two loops leave them, unpacked is what _unpack_dataframes gave for them
UnpackedStats(renamed, unpacked) ==
    [err          |-> unpacked.err,
     val          |-> IF unpacked.err = "none" THEN dict_to_dataset(unpacked.val)
                      ELSE NoneValue,
     sample_stats |-> List(renamed)]

UnpackStats(renamed) == UnpackedStats(renamed, unpack_dataframes(renamed))

\* sample_stats is the list the attribute holds as the method leaves it: the
\* method works on the tables of self.sample_stats themselves
sample_stats_to_xarray(obj) ==
    IF ~requires(obj, "sample_stats")
    THEN [err |-> "none", val |-> NoneValue, sample_stats |-> obj.sample_stats]
    ELSE LET sampler_params == obj.sample_stats.v
             ll == obj.log_likelihood
             log_likelihood == IF IsStr(ll) /\ IsNone(obj.posterior) THEN NoneValue ELSE ll
             Raise(err) == [err |-> err, val |-> NoneValue,
                            sample_stats |-> obj.sample_stats]
         IN IF IsStr(log_likelihood) /\ obj.posterior.v = <<>> THEN Raise("IndexError")
            ELSE IF ~IsNone(log_likelihood) /\ ~IsStr(log_likelihood)
                    /\ sampler_params # <<>>
            THEN Raise("UnboundLocalError")
            ELSE LET log_likelihood_cols ==
                         IF IsStr(log_likelihood)
                         THEN ColumnsNamed(obj.posterior.v[1].columns, <<log_likelihood.v>>)
                         ELSE <<>>
                     added == [i \in 1..Len(sampler_params) |->
                                  IF IsStr(log_likelihood)
                                  THEN AddLogLikelihood(sampler_params[i],
                                          obj.posterior.v[i], log_likelihood.v,
                                          log_likelihood_cols, 1)
                                  ELSE sampler_params[i]]
                 IN UnpackStats([j \in 1..Len(added) |-> RetypeAndRename(added[j])])

\* the sample tables of the segments read
Samples(chain_data) == [c \in 1..Len(chain_data) |-> chain_data[c].sample]

\* the dataset of the samples read from files: got is what the loop over the
\* paths gave
ReadToDataset(got) ==
    IF got.err # "none" THEN [err |-> got.err, val |-> NoneValue, reads |-> got.reads]
    ELSE UnpackToDataset([err |-> "none", val |-> Samples(got.chain_data)])
            @@ [reads |-> got.reads]

\* the dataset of columns of the posterior: no file is read
ColumnsToDataset(made) == made @@ [reads |-> <<>>]

posterior_predictive_to_xarray(obj, disk) ==
    IF ~requires(obj, "posterior") \/ ~requires(obj, "posterior_predictive")
    THEN [err |-> "none", val |-> NoneValue, reads |-> <<>>]
    ELSE LET ppred == obj.posterior_predictive
         IN IF ~IsStr(ppred) /\ ppred.v = <<>>
            THEN [err |-> "IndexError", val |-> NoneValue, reads |-> <<>>]
            ELSE IF \/ ~IsStr(ppred) /\ EndsWith(ppred.v[1], CsvText)
                    \/ IsStr(ppred) /\ EndsWith(ppred.v, CsvText)
            THEN ReadToDataset(ReadAll(disk, Iterate(ppred)))
            ELSE IF obj.posterior.v = <<>>
            THEN [err |-> "IndexError", val |-> NoneValue, reads |-> <<>>]
            ELSE ColumnsToDataset(
                    UnpackToDataset(
                       SelectAll(obj.posterior.v,
                                 ColumnsNamed(obj.posterior.v[1].columns,
                                              IF IsStr(ppred) THEN <<ppred.v>>
                                              ELSE ppred.v))))

prior_to_xarray(obj, disk) ==
    IF ~requires(obj, "posterior") \/ ~requires(obj, "prior")
    THEN [err |-> "none", val |-> NoneValue, reads |-> <<>>]
    ELSE ReadToDataset(ReadAll(disk, Iterate(obj.prior)))

\* np.atleast_1d
AtLeast1d(arr) ==
    IF arr.shape = <<>>
    THEN [shape |-> <<1>>, cells |-> [idx \in {<<0>>} |-> arr.cells[<<>>]]]
    ELSE arr

\* the dataset of the arrays read: observed_data_raw is what _read_data
\* gave, variables the names kept (None: all)
ObservedDataset(observed_data_raw, variables) ==
    IF observed_data_raw.err # "none"
    THEN [err |-> observed_data_raw.err, val |-> NoneValue]
    ELSE [err |-> "none",
          val |-> [type |-> "Dataset",
                   data_vars |->
                      [key \in {k \in DOMAIN observed_data_raw.val :
                                   IsNone(variables) \/ k \in Range(variables.v)}
                          |-> AtLeast1d(observed_data_raw.val[key])]]]

\* file is the Rdump file (its path and its lines); the data arrays with
\* their dimensions named make the dataset
observed_data_to_xarray(obj, file) ==
    IF ~requires(obj, "posterior") \/ ~requires(obj, "observed_data")
    THEN ReturnsNone
    ELSE IF obj.observed_data.v # file.path
    THEN [err |-> "FileNotFoundError", val |-> NoneValue]
    ELSE ObservedDataset(read_data(file.lines),
                         IF IsStr(obj.observed_data_var)
                         THEN List(<<obj.observed_data_var.v>>)
                         ELSE obj.observed_data_var)

\* to_inference_data ends with the exception err
InferenceRaises(err, sample_stats, reads) ==
    [err |-> err, val |-> NoneValue, sample_stats |-> sample_stats, reads |-> reads]

\* the object as sample_stats_to_xarray leaves it
AfterStats(obj, stats) == [obj EXCEPT !.sample_stats = stats.sample_stats]

\* the return statement, the five groups made
InferenceOfGroups(posterior, stats, posterior_predictive, prior, observed_data) ==
    IF observed_data.err # "none"
    THEN InferenceRaises(observed_data.err, stats.sample_stats,
                         posterior_predictive.reads \o prior.reads)
    ELSE [err          |-> "none",
          val          |-> InferenceData(
                              [posterior            |-> posterior.val,
                               sample_stats         |-> stats.val,
                               posterior_predictive |-> posterior_predictive.val,
                               prior                |-> prior.val,
                               observed_data        |-> observed_data.val]),
          sample_stats |-> stats.sample_stats,
          reads        |-> posterior_predictive.reads \o prior.reads]

\* from "observed_data": self.observed_data_to_xarray() on
InferenceFromObserved(obj, file, posterior, stats, posterior_predictive, prior) ==
    IF prior.err # "none"
    THEN InferenceRaises(prior.err, stats.sample_stats,
                         posterior_predictive.reads \o prior.reads)
    ELSE InferenceOfGroups(posterior, stats, posterior_predictive, prior,
                           observed_data_to_xarray(obj, file))

\* from "prior": self.prior_to_xarray() on
InferenceFromPrior(obj, disk, file, posterior, stats, posterior_predictive) ==
    IF posterior_predictive.err # "none"
    THEN InferenceRaises(posterior_predictive.err, stats.sample_stats,
                         posterior_predictive.reads)
    ELSE InferenceFromObserved(obj, file, posterior, stats, posterior_predictive,
                               prior_to_xarray(obj, disk))

\* from "posterior_predictive": self.posterior_predictive_to_xarray() on
InferenceFromPredictive(obj, disk, file, posterior, stats) ==
    IF stats.err # "none" THEN InferenceRaises(stats.err, stats.sample_stats, <<>>)
    ELSE InferenceFromPrior(AfterStats(obj, stats), disk, file, posterior, stats,
            posterior_predictive_to_xarray(AfterStats(obj, stats), disk))

\* from "sample_stats": self.sample_stats_to_xarray() on
InferenceFromStats(obj, disk, file, posterior) ==
    IF posterior.err # "none" THEN InferenceRaises(posterior.err, obj.sample_stats, <<>>)
    ELSE InferenceFromPredictive(obj, disk, file, posterior, sample_stats_to_xarray(obj))

\* the five groups are made in the order written; the first exception ends
\* the call.  sample_stats is the attribute as the call leaves it.
to_inference_data(obj, disk, file) ==
    InferenceFromStats(obj, disk, file, posterior_to_xarray(obj))

(***************************************************************************)
(* The converters the model makes.  The disk holds two output files with   *)
(* the same header (o1.csv, of one or more stacked blocks, and o2.csv, of  *)
(* one block, written with or without its thin comment), one file of       *)
(* posterior-predictive or prior samples (pp.csv) and the Rdump file d.R.  *)
(* Every block has MaxSamples sampling rows and ends with TimingLines       *)
(* timing comments.                                                        *)
(***************************************************************************)
O1Path == <<"o", "1">> \o CsvText
O2Path == <<"o", "2">> \o CsvText
PPPath == <<"p", "p">> \o CsvText
OutputPattern == <<"o", "*">> \o CsvText
DataPath == <<"d", ".", "R">>

XText == <<"x">>
YhText == <<"y", "h">>
YhxText == <<"y", "h", "x">>
LlText == <<"l", "l">>
LpColumn == <<"l", "p", "_", "_">>

OutputColumns ==
    <<LpColumn, DivergentColumn, XText, YhText \o <<".", "1">>, YhText \o <<".", "2">>,
      YhxText, LlText \o <<".", "1">>>>

PredictiveColumns == <<LpColumn, YhText \o <<".", "1">>, YhText \o <<".", "2">>>>

ConvLayout(ns, k, thins) ==
    [ns |-> ns, nw |-> 0, sw |-> 0, th |-> 1, thins |-> thins, dflt |-> FALSE,
     A |-> 0, T |-> TimingLines, k |-> k]

\* foo <- c(1,2) and N <- 2
DataStatement ==
    [kind |-> "vector", vals |-> <<1, 2>>, dims |-> <<2>>, spaced |-> FALSE,
     eqspaced |-> FALSE, wrapped |-> FALSE]

\* output: nothing, a list of paths, or a pattern that finds o1.csv and o2.csv
Outputs ==
    {NoneValue, List(<<O1Path>>), List(<<O2Path, O1Path>>), Str(OutputPattern)}

\* posterior_predictive (pp) and log_likelihood (ll): names, lists of names,
\* and for pp the path of a file or a list of paths
Variables ==
    {[pp |-> NoneValue,                ll |-> NoneValue],
     [pp |-> NoneValue,                ll |-> Str(LlText)],
     [pp |-> Str(YhText),              ll |-> NoneValue],
     [pp |-> Str(YhText),              ll |-> Str(LlText)],
     [pp |-> List(<<XText, YhText>>),  ll |-> List(<<LlText>>)],
     [pp |-> Str(PPPath),              ll |-> NoneValue],
     [pp |-> List(<<PPPath>>),         ll |-> Str(LlText)]}

Priors == {NoneValue, List(<<PPPath>>)}

ObservedData ==
    {[path |-> NoneValue, var |-> NoneValue],
     [path |-> Str(DataPath), var |-> Str(FooText)]}

InitConv ==
    /\ \E k1 \in 1..MaxBlocks, thins2 \in {"all", "none"} :
          LET layouts == (O1Path :> ConvLayout(MaxSamples, k1, "all"))
                            @@ (O2Path :> ConvLayout(MaxSamples, 1, thins2))
                            @@ (PPPath :> ConvLayout(MaxSamples, 1, "all"))
          IN csv = [layouts |-> layouts,
                    disk    |-> (O1Path :> MkFile(1, OutputColumns, layouts[O1Path]))
                                   @@ (O2Path :> MkFile(2, OutputColumns, layouts[O2Path]))
                                   @@ (PPPath :> MkFile(3, PredictiveColumns,
                                                        layouts[PPPath]))]
    /\ rdump = [path  |-> DataPath,
                stmt  |-> DataStatement,
                lines |-> RenderStatement(DataStatement) \o SecondStatement]
    /\ \E output \in Outputs, variables \in Variables, prior \in Priors,
          observed \in ObservedData :
          self = [called |-> FALSE,
                  kwargs |-> [output               |-> output,
                              prior                |-> prior,
                              posterior_predictive |-> variables.pp,
                              observed_data        |-> observed.path,
                              observed_data_var    |-> observed.var,
                              log_likelihood       |-> variables.ll]]
    /\ groups = NotCalled
    /\ chains = NotCalled
    /\ dfs = <<>>
    /\ sample = NotCalled
    /\ data = NotCalled

\* CmdStanConverter(**kwargs)
Construct ==
    /\ ~self.called
    /\ self' = init(self.kwargs, csv.disk)
    /\ UNCHANGED <<dfs, sample, rdump, data, csv, chains, groups>>

\* the converter was made: __init__ raised nothing
Made == self.called /\ self.err = "none"

\* the operation op was called and gave got: its exception or its value,
\* and the calls of _read_output it made
Gave(op, got) ==
    groups' = [called |-> TRUE, op |-> op, err |-> got.err, val |-> got.val,
               reads |-> IF "reads" \in DOMAIN got THEN got.reads ELSE <<>>]

\* the same for an operation that works on the tables of self.sample_stats
GaveAndLeft(op, got) ==
    /\ Gave(op, got)
    /\ self' = [self EXCEPT !.sample_stats = got.sample_stats]

PosteriorToXarray ==
    /\ Made
    /\ Gave("posterior_to_xarray", posterior_to_xarray(self))
    /\ UNCHANGED <<dfs, sample, rdump, data, csv, chains, self>>

SampleStatsToXarray ==
    /\ Made
    /\ GaveAndLeft("sample_stats_to_xarray", sample_stats_to_xarray(self))
    /\ UNCHANGED <<dfs, sample, rdump, data, csv, chains>>

PosteriorPredictiveToXarray ==
    /\ Made
    /\ Gave("posterior_predictive_to_xarray",
            posterior_predictive_to_xarray(self, csv.disk))
    /\ UNCHANGED <<dfs, sample, rdump, data, csv, chains, self>>

PriorToXarray ==
    /\ Made
    /\ Gave("prior_to_xarray", prior_to_xarray(self, csv.disk))
    /\ UNCHANGED <<dfs, sample, rdump, data, csv, chains, self>>

ObservedDataToXarray ==
    /\ Made
    /\ Gave("observed_data_to_xarray", observed_data_to_xarray(self, rdump))
    /\ UNCHANGED <<dfs, sample, rdump, data, csv, chains, self>>

ToInferenceData ==
    /\ Made
    /\ GaveAndLeft("to_inference_data", to_inference_data(self, csv.disk, rdump))
    /\ UNCHANGED <<dfs, sample, rdump, data, csv, chains>>

NextConv ==
    \/ Construct
    \/ PosteriorToXarray
    \/ SampleStatsToXarray
    \/ PosteriorPredictiveToXarray
    \/ PriorToXarray
    \/ ObservedDataToXarray
    \/ ToInferenceData

SpecConv == InitConv /\ [][NextConv]_vars

(***************************************************************************)
(* What the claims about the converter speak of.                           *)
(***************************************************************************)
\* every call of _read_output made so far: by __init__, then by the last
\* extraction operation
AllReads ==
    (IF self.called THEN self.reads ELSE <<>>)
        \o (IF groups.called THEN groups.reads ELSE <<>>)

\* no comment line starts with 'thin' once its comment marker is dropped
NoThinLine(comments) ==
    \A k \in 1..Len(comments) :
        ~StartsWith(Strip(StripChars(comments[k], {"#"})), ThinText)

\* C5: every call of _process_configuration whose comment lines hold no thin
\* line ends with an error and gives no configuration, whatever was parsed
\* before it: the call of _read_output it was made in ends with the same
\* error at that call, and a converter being made is not made.
C5_MissingThinRaises ==
    \A r \in 1..Len(AllReads) :
        \A c \in 1..Len(AllReads[r].calls) :
            NoThinLine(AllReads[r].calls[c].comments) =>
                /\ AllReads[r].calls[c].result.err = "UnboundLocalError"
                /\ AllReads[r].err = "UnboundLocalError"
                /\ c = Len(AllReads[r].calls)
                /\ r = Len(AllReads)
                /\ r <= Len(self.reads) => self.err = "UnboundLocalError"

\* C5's case: a first file parsed with thin = 1, then a file without a thin
\* line
C5_Witness ==
    /\ self.called
    /\ Len(self.reads) = 2
    /\ self.reads[1].err = "none"
    /\ self.reads[1].calls[1].result.thin = 1
    /\ self.reads[2].calls # <<>>
    /\ NoThinLine(self.reads[2].calls[1].comments)
    /\ self.reads[2].err = "UnboundLocalError"

\* the names an argument configures: one name, or the names of a list
ConfiguredNames(arg) ==
    IF IsNone(arg) THEN {} ELSE IF IsStr(arg) THEN {arg.v} ELSE Range(arg.v)

\* the names whose columns are to be left out of the posterior
ExcludedNames(kwargs) ==
    (IF IsStr(kwargs.posterior_predictive)
        /\ EndsWith(kwargs.posterior_predictive.v, CsvText)
     THEN {}
     ELSE ConfiguredNames(kwargs.posterior_predictive))
        \cup ConfiguredNames(kwargs.log_likelihood)

\* the columns of the first sample table that are to be kept
KeptColumns ==
    SelectSeq(self.posterior.v[1].columns,
              LAMBDA col : BaseName(col) \notin ExcludedNames(self.kwargs))

\* C6: posterior_to_xarray reconstructs exactly the columns of the sample
\* tables whose base name is none of the configured posterior-predictive and
\* log-likelihood names; a posterior_predictive string ending in '.csv'
\* excludes nothing.
C6_PosteriorColumnsFiltered ==
    (groups.called /\ groups.op = "posterior_to_xarray" /\ ~IsNone(self.posterior)
        /\ self.posterior.v # <<>>) =>
        LET expected == unpack_dataframes(
                            [c \in 1..Len(self.posterior.v) |->
                                SelectColumns(self.posterior.v[c], KeptColumns)])
        IN /\ groups.err = expected.err
           /\ groups.err = "none" =>
                 /\ groups.val.data_vars = expected.val
                 /\ DOMAIN groups.val.data_vars
                        = {BaseName(KeptColumns[k]) : k \in 1..Len(KeptColumns)}

\* C6's case: the names yh and ll are configured, the columns yh.1, yh.2 and
\* ll.1 are left out and the columns x and yhx are kept
C6_Witness ==
    /\ groups.called /\ groups.op = "posterior_to_xarray" /\ groups.err = "none"
    /\ IsStr(self.kwargs.posterior_predictive)
    /\ self.kwargs.posterior_predictive.v = YhText
    /\ IsStr(self.kwargs.log_likelihood)
    /\ self.kwargs.log_likelihood.v = LlText
    /\ ~IsNone(groups.val)
    /\ YhxText \in Range(self.posterior.v[1].columns)
    /\ DOMAIN groups.val.data_vars = {XText, YhxText}

\* the same with a list of paths for posterior_predictive: nothing is
\* excluded on its account
PosteriorKeepsAllForCsv ==
    (groups.called /\ groups.op = "posterior_to_xarray" /\ groups.err = "none"
        /\ ~IsNone(groups.val)
        /\ ~IsNone(self.kwargs.posterior_predictive)
        /\ PPPath \in ConfiguredNames(self.kwargs.posterior_predictive)
        /\ IsNone(self.kwargs.log_likelihood)) =>
        DOMAIN groups.val.data_vars = {XText, YhText, YhxText, LlText}

\* the groups whose inputs were supplied
ExpectedGroups(kwargs) ==
    IF IsNone(kwargs.output) THEN {}
    ELSE {"posterior", "sample_stats"}
            \cup (IF IsNone(kwargs.posterior_predictive) THEN {}
                  ELSE {"posterior_predictive"})
            \cup (IF IsNone(kwargs.prior) THEN {} ELSE {"prior"})
            \cup (IF IsNone(kwargs.observed_data) THEN {} ELSE {"observed_data"})

\* the group an extraction operation makes
GroupOf(op) ==
    CASE op = "posterior_to_xarray" -> "posterior"
      [] op = "sample_stats_to_xarray" -> "sample_stats"
      [] op = "posterior_predictive_to_xarray" -> "posterior_predictive"
      [] op = "prior_to_xarray" -> "prior"
      [] op = "observed_data_to_xarray" -> "observed_data"
      [] OTHER -> "all"

\* the inputs are of the types from_cmdstan documents
DocumentedInputs == IsNone(self.kwargs.log_likelihood) \/ IsStr(self.kwargs.log_likelihood)

\* an extraction operation whose input is missing raises nothing and gives
\* no dataset
MissingInputGivesNone ==
    (groups.called /\ groups.op # "to_inference_data"
        /\ GroupOf(groups.op) \notin ExpectedGroups(self.kwargs)) =>
        groups.err = "none" /\ IsNone(groups.val)

\* C7: an extraction operation whose input is missing raises nothing and
\* gives no dataset, and to_inference_data returns the collection of exactly
\* the groups whose inputs were supplied (stated for inputs of the
\* documented types).
C7_MissingInputOmitsGroup ==
    /\ MissingInputGivesNone
    /\ (groups.called /\ groups.op = "to_inference_data" /\ DocumentedInputs) =>
          /\ groups.err = "none"
          /\ DOMAIN groups.val.groups = ExpectedGroups(self.kwargs)

\* the same when posterior_predictive is not the path of a file given as a
\* string
GroupsOmittedUnlessCsvString ==
    (groups.called /\ groups.op = "to_inference_data" /\ DocumentedInputs
        /\ ~(IsStr(self.kwargs.posterior_predictive)
                /\ self.kwargs.posterior_predictive.v = PPPath)) =>
        /\ groups.err = "none"
        /\ DOMAIN groups.val.groups = ExpectedGroups(self.kwargs)

\* C8: with output supplied and posterior_predictive a string ending in
\* '.csv', posterior_predictive_to_xarray reads exactly that one path and
\* gives what it gives for the one-element list of the path.
C8_CsvStringReadAsOneFile ==
    (groups.called /\ groups.op = "posterior_predictive_to_xarray"
        /\ ~IsNone(self.kwargs.output)
        /\ IsStr(self.kwargs.posterior_predictive)
        /\ EndsWith(self.kwargs.posterior_predictive.v, CsvText)) =>
        LET path == self.kwargs.posterior_predictive.v
            listed == posterior_predictive_to_xarray(
                          [self EXCEPT !.posterior_predictive = List(<<path>>)],
                          csv.disk)
        IN /\ groups.err = "none"
           /\ groups.err = listed.err
           /\ groups.val = listed.val
           /\ [k \in 1..Len(groups.reads) |-> groups.reads[k].path] = <<path>>

\* the one-element list of the path is read as that file
CsvListReadAsFiles ==
    (groups.called /\ groups.op = "posterior_predictive_to_xarray"
        /\ ~IsNone(self.kwargs.output)
        /\ ~IsNone(self.kwargs.posterior_predictive)
        /\ ~IsStr(self.kwargs.posterior_predictive)
        /\ self.kwargs.posterior_predictive.v = <<PPPath>>) =>
        /\ groups.err = "none"
        /\ [k \in 1..Len(groups.reads) |-> groups.reads[k].path] = <<PPPath>>
        /\ DOMAIN groups.val.data_vars = {YhText}

\* the sample tables of the segments of the files at paths: file by file in
\* the order of the list, and within a file block by block
ExpectedChains(paths) ==
    Flatten([f \in 1..Len(paths) |->
        [blk \in 1..csv.layouts[paths[f]].k |->
            FileTable(csv.disk[paths[f]],
                      SelectSeq(csv.disk[paths[f]].cols,
                                LAMBDA col : ~EndsWith(col, <<"_", "_">>)),
                      SectLines(csv.disk[paths[f]], "sample", blk))]])

\* C9: the chains of the converter are the segments of the output files,
\* file by file in the order of the list and within a file in physical
\* order; their number is the total number of segments; the chain axis of a
\* reconstructed tensor follows the same order.
C9_ChainsInFileThenPhysicalOrder ==
    (Made /\ ~IsNone(self.output)) =>
        LET expected == ExpectedChains(self.output.v)
        IN /\ self.posterior.v = expected
           /\ Len(self.sample_stats.v) = Len(expected)
           /\ \A c \in 1..Len(expected) :
                 self.sample_stats.v[c].lines = expected[c].lines
           /\ (groups.called /\ groups.op = "posterior_to_xarray"
                  /\ groups.err = "none") =>
                 \A c \in 1..Len(expected) :
                    \A d \in 1..expected[c].nrows :
                       groups.val.data_vars[YhxText].cells[<<c - 1, d - 1>>]
                           = ColumnValues(expected[c], YhxText)[d]

\* C9's case: o2.csv is listed before o1.csv, o1.csv holds more than one
\* segment, and the posterior was reconstructed
C9_Witness ==
    /\ Made
    /\ ~IsNone(self.output)
    /\ self.output.v = <<O2Path, O1Path>>
    /\ csv.layouts[O1Path].k >= 2
    /\ Len(self.posterior.v) = 1 + csv.layouts[O1Path].k
    /\ groups.called /\ groups.op = "posterior_to_xarray" /\ groups.err = "none"

\* the three extraction operations the claim about repeated calls names
ExtractionOperations ==
    {"posterior_to_xarray", "sample_stats_to_xarray", "posterior_predictive_to_xarray"}

\* what the operation op gives on the converter obj
Extraction(op, obj, disk) ==
    CASE op = "posterior_to_xarray" -> posterior_to_xarray(obj)
      [] op = "sample_stats_to_xarray" -> sample_stats_to_xarray(obj)
      [] OTHER -> posterior_predictive_to_xarray(obj, disk)

\* the step is a call of one of the three operations
ExtractionStep ==
    self.called /\ groups'.called /\ groups'.op \in ExtractionOperations

\* the call gives what the same call gives on the converter as __init__
\* left it
SameAsFirstCall ==
    /\ groups'.err = Extraction(groups'.op, init(self.kwargs, csv.disk), csv.disk).err
    /\ groups'.val = Extraction(groups'.op, init(self.kwargs, csv.disk), csv.disk).val

\* C12: a call of posterior_to_xarray, sample_stats_to_xarray or
\* posterior_predictive_to_xarray leaves the sample tables and the stats
\* tables the parse pass stored as they were (names, types and values of
\* the columns), and gives what its first call on the converter gives.
C12_ExtractionLeavesTablesUnchanged ==
    [][ExtractionStep =>
          /\ self'.posterior = self.posterior
          /\ self'.sample_stats = self.sample_stats
          /\ SameAsFirstCall]_vars

\* the sample tables are left as they were by every operation
SampleTablesUnchanged == [][self.called => self'.posterior = self.posterior]_vars

\* the stats tables are left as they were by the two operations that only
\* read them
StatsTablesUnchangedByReaders ==
    [][(ExtractionStep /\ groups'.op # "sample_stats_to_xarray")
          => self'.sample_stats = self.sample_stats]_vars

\* every call of the three operations gives what its first call gives, on
\* whatever calls went before
ExtractionResultsRepeat == [][ExtractionStep => SameAsFirstCall]_vars

=============================================================================
